---- MODULE Spec2Model ----
(***************************************************************************)
(* A model of the mpfshell command shell (mp/mpfshell.py): the MpFileShell *)
(* command handlers and main(), driving a File Explorer over one device.   *)
(* The File Explorer, its caching variant, the tokenizer and the exception *)
(* classes live in modules of the repository that are not among the        *)
(* sources (mp/mpfexp.py, mp/tokenizer.py, mp/pyboard.py); they are        *)
(* modelled from the design document and marked so in the model map.       *)
(***************************************************************************)
EXTENDS Integers, Sequences, FiniteSets, TLC

(***************************************************************************)
(* Bounds of the model.                                                    *)
(***************************************************************************)
\* longest argument string, counted in lexemes (words, blanks, bad characters)
MaxArgLen == 3
\* longest ';'-separated command list given with -c
MaxCmds == 2
\* most sessions that may be open on the link at once
MaxSessions == 2
\* the File Explorer calls of one command that a device fault may hit: 1..MaxFault
MaxFault == 3

(***************************************************************************)
(* Remote paths and the device's filesystem.                               *)
(***************************************************************************)
Names == {"a", "b"}
NameRank == [n \in Names |-> IF n = "a" THEN 1 ELSE 2]
Root == <<>>
\* the nodes the device's filesystem may hold
NodePaths == {<<n>> : n \in Names} \cup {<<"a", "a">>}
Parent(p) == SubSeq(p, 1, Len(p) - 1)
LastName(p) == p[Len(p)]

\* a filesystem: every node is absent "N", a file "F" or a directory "D"
WellFormed(f) == \A p \in NodePaths : (f[p] # "N" /\ Len(p) > 1) => f[Parent(p)] = "D"
FileSystems == {f \in [NodePaths -> {"N", "F", "D"}] : WellFormed(f)}
IsDir(f, p) == p = Root \/ (p \in NodePaths /\ f[p] = "D")
Exists(f, p) == p = Root \/ (p \in NodePaths /\ f[p] # "N")
Children(f, d) == {p \in NodePaths : Parent(p) = d /\ f[p] # "N"}
Listing(f, d) == {[name |-> LastName(p), kind |-> f[p]] : p \in Children(f, d)}
IsPrefix(d, p) == Len(d) <= Len(p) /\ SubSeq(p, 1, Len(d)) = d

\* a path as the user types it: absolute ("/a/b") or relative to the tracked directory
PathArgs == {[abs |-> ab, segs |-> s] : ab \in BOOLEAN, s \in {<<>>, <<"a">>, <<"b">>, <<"a", "b">>}}
                 \ {[abs |-> FALSE, segs |-> <<>>]}
AbsArg(p) == [abs |-> TRUE, segs |-> p]
RelArg(n) == [abs |-> FALSE, segs |-> <<n>>]
Fqn(dir, p) == IF p.abs THEN p.segs ELSE dir \o p.segs
\* the empty string, and what `len(directory) != 0` tests
EmptyArg == [abs |-> FALSE, segs |-> <<>>]
Given(p) == p # EmptyArg

(***************************************************************************)
(* Sorting of a listing, as do_ls and rec_tree do it:                      *)
(* sorted(sorted(files, key=name), key=kind), so directories ("D") come    *)
(* before files ("F") and each group is alphabetical.                      *)
(***************************************************************************)
KindRank(k) == IF k = "D" THEN 1 ELSE 2
Before(x, y) == \/ KindRank(x.kind) < KindRank(y.kind)
                \/ (x.kind = y.kind /\ NameRank[x.name] < NameRank[y.name])
RECURSIVE SortFiles(_)
SortFiles(files) ==
    IF files = {} THEN <<>>
    ELSE LET first == CHOOSE x \in files : \A y \in files \ {x} : Before(x, y)
         IN <<first>> \o SortFiles(files \ {first})

(***************************************************************************)
(* The File Explorer (mp/mpfexp.py), from the design document.  A context  *)
(* c carries what one command handler works on: the tracked directory, the *)
(* cache of listings, the device's filesystem, the log of File Explorer    *)
(* operations invoked so far, the exception being raised ("none" when none *)
(* is), the last listing returned, and the device faults of this command:  *)
(* fault = k makes the k-th operation fail with a remote error, timeout    *)
(* makes the Execution Engine time out in exec, rm and rmr.  mut holds the *)
(* directory whose content an md, rm or put of this command changed while  *)
(* its listing was cached.                                                 *)
(***************************************************************************)
Dirs == {Root} \cup NodePaths
NoEntry == {[name |-> "?", kind |-> "?"]}
EmptyCache == [d \in Dirs |-> NoEntry]
Exceptions == {"none", "RemoteIOError", "IOError", "PyboardError"}

Faulted(c) == c.fault = Len(c.ops) + 1
Log(c, op, ok) == Append(c.ops, [op |-> op, ok |-> ok])
Raise(c, op, e) ==
    [c EXCEPT !.ops = Log(c, op, FALSE), !.exc = e, !.sus = @ \/ e = "PyboardError"]
\* a directory whose content changes: noted when its listing is cached
NoDir == <<"-">>
Outdated(c, d) == IF d \in Dirs /\ c.cache[d] # NoEntry THEN d ELSE c.mut
Invalidate(K, cache, ds) ==
    IF K = "Caching" THEN [d \in Dirs |-> IF d \in ds THEN NoEntry ELSE cache[d]] ELSE cache
Subtree(p) == {q \in NodePaths : IsPrefix(p, q)}

\* cd(path): verifies the directory exists, then updates the tracked directory
FeCd(c, p) ==
    LET t == Fqn(c.dir, p)
    IN IF IsDir(c.fs, t) /\ ~Faulted(c)
       THEN [c EXCEPT !.ops = Log(c, "cd", TRUE), !.dir = t]
       ELSE Raise(c, "cd", "RemoteIOError")

\* ls(): the listing of the tracked directory; the caching variant answers from
\* its Cache Entry when it has one and stores what it fetched when it has none
FeLs(K, c) ==
    IF K = "Caching" /\ c.dir \in Dirs /\ c.cache[c.dir] # NoEntry
    THEN [c EXCEPT !.ops = Log(c, "ls", TRUE), !.val = c.cache[c.dir]]
    ELSE IF IsDir(c.fs, c.dir) /\ ~Faulted(c)
         THEN [c EXCEPT !.ops = Log(c, "ls", TRUE), !.val = Listing(c.fs, c.dir),
                        !.cache = IF K = "Caching"
                                  THEN [@ EXCEPT ![c.dir] = Listing(c.fs, c.dir)] ELSE @]
         ELSE Raise(c, "ls", "RemoteIOError")

\* md(path): creates one directory; fails when it exists or its parent does not
FeMd(K, c, p) ==
    LET t == Fqn(c.dir, p)
    IN IF t \in NodePaths /\ c.fs[t] = "N" /\ IsDir(c.fs, Parent(t)) /\ ~Faulted(c)
       THEN [c EXCEPT !.ops = Log(c, "md", TRUE), !.fs = [@ EXCEPT ![t] = "D"],
                      !.mut = Outdated(c, Parent(t)),
                      !.cache = Invalidate(K, @, {Parent(t)})]
       ELSE Raise(c, "md", "RemoteIOError")

\* rm(path): deletes one file or one empty directory
FeRm(K, c, p) ==
    LET t == Fqn(c.dir, p)
    IN IF c.timeout THEN Raise(c, "rm", "PyboardError")
       ELSE IF t \in NodePaths /\ c.fs[t] # "N" /\ Children(c.fs, t) = {} /\ ~Faulted(c)
       THEN [c EXCEPT !.ops = Log(c, "rm", TRUE), !.fs = [@ EXCEPT ![t] = "N"],
                      !.mut = Outdated(c, Parent(t)),
                      !.cache = Invalidate(K, @, {Parent(t)})]
       ELSE Raise(c, "rm", "RemoteIOError")

\* rmr(path): deletes a directory with everything below it
FeRmr(K, c, p) ==
    LET t == Fqn(c.dir, p)
    IN IF c.timeout THEN Raise(c, "rmr", "PyboardError")
       ELSE IF t \in NodePaths /\ c.fs[t] = "D" /\ ~Faulted(c)
       THEN [c EXCEPT !.ops = Log(c, "rmr", TRUE),
                      !.fs = [q \in NodePaths |-> IF q \in Subtree(t) THEN "N" ELSE @[q]],
                      !.cache = Invalidate(K, @, {Parent(t)} \cup Subtree(t))]
       ELSE Raise(c, "rmr", "RemoteIOError")

\* put(src, dst): writes a local file to the remote file dst (src's name when
\* dst is not given); a local file that cannot be read is an IOError
FePut(K, c, src, dst, localOk) ==
    LET t == Fqn(c.dir, dst)
    IN IF ~localOk THEN Raise(c, "put", "IOError")
       ELSE IF t \in NodePaths /\ c.fs[t] # "D" /\ IsDir(c.fs, Parent(t)) /\ ~Faulted(c)
       THEN [c EXCEPT !.ops = Log(c, "put", TRUE), !.fs = [@ EXCEPT ![t] = "F"],
                      !.mut = Outdated(c, Parent(t)),
                      !.cache = Invalidate(K, @, {Parent(t)})]
       ELSE Raise(c, "put", "RemoteIOError")

\* putr(src, dst): creates the remote directory dst and uploads into it; the
\* local directory is taken to be empty, so only the directory is made
FePutr(K, c, src, dst, localOk) ==
    LET t == Fqn(c.dir, dst)
    IN IF ~localOk THEN Raise(c, "putr", "IOError")
       ELSE IF t \in NodePaths /\ c.fs[t] # "F" /\ IsDir(c.fs, Parent(t)) /\ ~Faulted(c)
       THEN [c EXCEPT !.ops = Log(c, "putr", TRUE), !.fs = [@ EXCEPT ![t] = "D"],
                      !.cache = Invalidate(K, @, {Parent(t), t})]
       ELSE Raise(c, "putr", "RemoteIOError")

\* mput(pattern): put for every local file whose name matches; into the tracked directory
FeMput(K, c, matched) ==
    LET ts == {Append(c.dir, n) : n \in matched}
    IN IF IsDir(c.fs, c.dir) /\ (\A t \in ts : t \in NodePaths /\ c.fs[t] # "D") /\ ~Faulted(c)
       THEN [c EXCEPT !.ops = Log(c, "mput", TRUE),
                      !.fs = [q \in NodePaths |-> IF q \in ts THEN "F" ELSE @[q]],
                      !.cache = IF ts = {} THEN @ ELSE Invalidate(K, @, {c.dir})]
       ELSE Raise(c, "mput", "RemoteIOError")

\* mrm(pattern): rm for every file of the tracked directory whose name matches
FeMrm(K, c, matched) ==
    LET ts == {t \in Children(c.fs, c.dir) : LastName(t) \in matched /\ c.fs[t] = "F"}
    IN IF IsDir(c.fs, c.dir) /\ ~Faulted(c)
       THEN [c EXCEPT !.ops = Log(c, "mrm", TRUE),
                      !.fs = [q \in NodePaths |-> IF q \in ts THEN "N" ELSE @[q]],
                      !.cache = IF ts = {} THEN @ ELSE Invalidate(K, @, {c.dir})]
       ELSE Raise(c, "mrm", "RemoteIOError")

\* get(src), gets(src): read a remote file; the device fails when it is no file
FeGet(c, op, src) ==
    LET t == Fqn(c.dir, src)
    IN IF t \in NodePaths /\ c.fs[t] = "F" /\ ~Faulted(c)
       THEN [c EXCEPT !.ops = Log(c, op, TRUE)]
       ELSE Raise(c, op, "RemoteIOError")

\* getr(src): download a remote directory
FeGetr(c, src) ==
    LET t == Fqn(c.dir, src)
    IN IF IsDir(c.fs, t) /\ ~Faulted(c)
       THEN [c EXCEPT !.ops = Log(c, "getr", TRUE)]
       ELSE Raise(c, "getr", "RemoteIOError")

\* mget(pattern): get for every matching file of the tracked directory
FeMget(c) ==
    IF IsDir(c.fs, c.dir) /\ ~Faulted(c)
    THEN [c EXCEPT !.ops = Log(c, "mget", TRUE)]
    ELSE Raise(c, "mget", "RemoteIOError")

\* exec_raw_no_follow + follow: run a statement through the Execution Engine;
\* stderr is the device's error text (empty when the statement ran cleanly)
FeExec(c, stderr) ==
    IF c.timeout THEN Raise(c, "exec", "PyboardError")
    ELSE [c EXCEPT !.ops = Log(c, "exec", TRUE), !.err = @ \/ stderr]

(***************************************************************************)
(* The tokenizer (mp/tokenizer.py), from the design document: an argument  *)
(* string is a sequence of lexemes, each a word (a run of filename         *)
(* characters, read as a path), a blank, or a character no filename may    *)
(* hold.  Scanning keeps the words, drops the blanks and stops at the      *)
(* first bad character: what is left from there on is the remainder.       *)
(* Two words that follow each other are separated by one blank.            *)
(***************************************************************************)
Word(p) == [kind |-> "word", path |-> p]
Blank == [kind |-> "blank", path |-> AbsArg(Root)]
Bad == [kind |-> "bad", path |-> AbsArg(Root)]
ArgWords == {RelArg("a"), RelArg("b"), AbsArg(Root)}
Lexemes == {Blank, Bad} \cup {Word(p) : p \in ArgWords}
\* the argument strings drawn: a first lexeme, then more words, and at most one
\* bad character, which comes last (what follows it only lengthens the remainder)
MoreLexemes == {Bad, Word(RelArg("b"))}
ArgStrings ==
    {s \in UNION {{<<x>> \o t : x \in Lexemes, t \in [1..n -> MoreLexemes]} :
                      n \in 0..(MaxArgLen - 1)} :
        \A i \in 1..(Len(s) - 1) : s[i] # Bad} \cup {<<>>}

RECURSIVE Scan(_, _)
Scan(str, tokens) ==
    IF str = <<>> THEN [tokens |-> tokens, rest |-> <<>>]
    ELSE IF Head(str).kind = "bad" THEN [tokens |-> tokens, rest |-> str]
    ELSE IF Head(str).kind = "blank" THEN Scan(Tail(str), tokens)
    ELSE Scan(Tail(str), Append(tokens, Head(str).path))
Tokenize(str) == Scan(str, <<>>)

(***************************************************************************)
(* Targets of the open command: strings over the pieces the prefix tests   *)
(* of do_open tell apart ("ser:", "/dev/", "COM", "tn:", "ws:", and "x"    *)
(* for anything else).                                                     *)
(***************************************************************************)
Targets == {<<>>, <<"x">>, <<"ser:", "x">>}
Schemes == {"ser:", "tn:", "ws:"}
StartsWith(str, pre) == Len(pre) <= Len(str) /\ SubSeq(str, 1, Len(pre)) = pre
Platforms == {"Windows", "Linux"}

(***************************************************************************)
(* The state of the program.                                               *)
(***************************************************************************)
VARIABLES
    pc,              \* main: "cmdlist" (-c), "cmdloop", "done", "crashed"
    todo,            \* entries of the -c list still to run
    noninteractive,  \* args.noninteractive
    caching,         \* self.caching
    fe,              \* self.fe: "None", or the class of the File Explorer held
    dir,             \* self.fe.dir, the tracked remote directory
    cache,           \* the caching File Explorer's Cache Entries
    suspect,         \* a protocol error left the session's raw-mode state undefined
    prompt,          \* the path shown in self.prompt
    fs,              \* the device's filesystem
    sessions,        \* sessions created and not closed
    exit,            \* "exited": the last command was exit or EOF; "resumed": the
                     \* last command ran although the one before it was exit; else "no"
    last,            \* of the last command: whether it used a suspect session, the
                     \* directory with a cached listing whose content it changed,
                     \* and, when it opened a session, the target it was given and
                     \* the port it handed to the File Explorer
    crash            \* the traceback of the exception that ended the program
vars == <<pc, todo, noninteractive, caching, fe, dir, cache, suspect, prompt, fs,
          sessions, exit, last, crash>>

NoOpen == [target |-> <<>>, port |-> <<>>, plat |-> "none"]
NoInfo == [reused |-> FALSE, mut |-> NoDir, open |-> NoOpen]
NoCrash == [cmd |-> "none", exc |-> "none", ops |-> <<>>]

Init ==
    /\ noninteractive \in BOOLEAN
    /\ todo \in 0..MaxCmds
    /\ pc = (IF todo > 0 THEN "cmdlist" ELSE "cmdloop")
    /\ (todo = 0 => ~noninteractive)
    /\ caching \in BOOLEAN
    /\ fe = "None"
    /\ dir = Root
    /\ cache = EmptyCache
    /\ suspect = FALSE
    /\ prompt = Root
    /\ fs \in FileSystems
    /\ sessions = 0
    /\ exit = "no"
    /\ last = NoInfo
    /\ crash = NoCrash

(***************************************************************************)
(* Helpers of MpFileShell.  Every handler turns the context it starts from *)
(* into the context it ends with; the context also carries the fields of   *)
(* the shell the handlers change.                                          *)
(***************************************************************************)
Ctx(flt, tmo) ==
    [fe |-> fe, dir |-> dir, cache |-> cache, fs |-> fs, prompt |-> prompt,
     sessions |-> sessions, suspect |-> suspect,
     ops |-> <<>>, exc |-> "none", err |-> FALSE, val |-> {}, mut |-> NoDir,
     sus |-> FALSE, fault |-> flt, timeout |-> tmo,
     target |-> <<>>, port |-> <<>>, plat |-> "none"]

\* RemoteIOError derives from IOError: `except IOError` catches both
IsA(e, class) == e = class \/ (class = "IOError" /\ e = "RemoteIOError")

\* __error(msg)
error(c) == [c EXCEPT !.err = TRUE]

\* an except clause for the classes given: the error is reported, the handler goes on
Catch(c, classes) ==
    IF c.exc # "none" /\ \E k \in classes : IsA(c.exc, k)
    THEN [c EXCEPT !.exc = "none", !.err = TRUE]
    ELSE c

\* __set_prompt_path()
set_prompt_path(c) == [c EXCEPT !.prompt = IF c.fe # "None" THEN c.dir ELSE Root]

\* close(): ends the session; the device may fail it
FeClose(c) ==
    IF ~Faulted(c)
    THEN [c EXCEPT !.ops = Log(c, "close", TRUE), !.sessions = @ - 1]
    ELSE Raise(c, "close", "RemoteIOError")

\* MpFileExplorer(port) / MpFileExplorerCaching(port): a new session, or the
\* exception the constructor raises
FeNew(c, class, ctor) ==
    IF ctor = "ok"
    THEN [c EXCEPT !.ops = Log(c, "new", TRUE), !.fe = class, !.dir = Root,
                   !.cache = EmptyCache, !.sessions = @ + 1, !.suspect = FALSE]
    ELSE Raise(c, "new", ctor)

\* __disconnect()
disconnect(c) ==
    IF c.fe # "None"
    THEN LET c1 == FeClose(c)
         IN IF c1.exc = "none"
            THEN set_prompt_path([c1 EXCEPT !.fe = "None", !.dir = Root, !.cache = EmptyCache,
                                            !.suspect = FALSE])
            ELSE Catch(c1, {"RemoteIOError"})
    ELSE c

\* __connect(port)
connect(c, port, ctor) ==
    LET c1 == disconnect(c)
        c2 == FeNew([c1 EXCEPT !.port = port], IF caching THEN "Caching" ELSE "Plain", ctor)
    IN Catch(c2, {"PyboardError", "ConError", "AttributeError"})

\* __is_open(); the caller reports the error when it is not
is_open(c) == c.fe # "None"

\* __parse_file_names that hands back the tokens scanned before the remainder
parse_file_names_lenient(args) ==
    [ok |-> TRUE, names |-> Tokenize(args).tokens]

\* __parse_file_names(args): the tokens, or None (ok = FALSE) with an error reported
parse_file_names(args) ==
    LET t == Tokenize(args)
    IN IF t.rest # <<>> THEN [ok |-> FALSE, names |-> <<>>]
       ELSE [ok |-> TRUE, names |-> t.tokens]

\* whether a handler that takes at most `most` file names gets past its checks
Tokens(args) == parse_file_names(args).names
Usable(args, most) ==
    /\ Len(args) > 0
    /\ parse_file_names(args).ok
    /\ Len(Tokens(args)) \in 1..most

(***************************************************************************)
(* The command handlers.                                                   *)
(***************************************************************************)
\* do_exit(args), do_EOF
do_exit(c) == disconnect(c)

\* the prefix test and the normalisation of do_open
Normalize(plat, args) ==
    IF /\ ~StartsWith(args, <<"ser:", "/dev/">>)
       /\ ~StartsWith(args, <<"ser:", "COM">>)
       /\ ~StartsWith(args, <<"tn:">>)
       /\ ~StartsWith(args, <<"ws:">>)
    THEN IF plat = "Windows" THEN <<"ser:">> \o args ELSE <<"ser:", "/dev/">> \o args
    ELSE args

\* do_open(args)
do_open(c, args, plat, ctor) ==
    IF Len(args) = 0 THEN error(c)
    ELSE connect([c EXCEPT !.target = args, !.plat = plat], Normalize(plat, args), ctor)

\* do_close(args)
do_close(c) == disconnect(c)

\* do_ls(directory)
do_ls(c, directory) ==
    IF ~is_open(c) THEN error(c)
    ELSE LET olddir == c.dir
             c1 == IF Given(directory) THEN FeCd(c, directory) ELSE c
             c2 == IF c1.exc = "none" THEN FeLs(c.fe, c1) ELSE c1
             c3 == Catch(c2, {"IOError"})
         IN IF Given(directory) THEN FeCd(c3, AbsArg(olddir)) ELSE c3

\* rec_tree(directory, prefix): the walk over the sorted listing is Walk
RECURSIVE rec_tree(_, _)
RECURSIVE Walk(_, _)
Walk(c, files) ==
    IF files = <<>> THEN c
    ELSE IF Head(files).kind = "F" THEN Walk(c, Tail(files))
    ELSE Walk(rec_tree(c, AbsArg(Fqn(c.dir, RelArg(Head(files).name)))), Tail(files))
\* rec_tree listing each directory by its path, the tracked directory set
\* aside and put back without a cd
rec_tree_by_path(c, directory) ==
    LET olddir == c.dir
        c1 == IF IsDir(c.fs, Fqn(c.dir, directory))
              THEN [c EXCEPT !.dir = Fqn(c.dir, directory)]
              ELSE Raise(c, "ls", "RemoteIOError")
        c2 == IF c1.exc = "none" THEN FeLs(c.fe, c1) ELSE c1
        c3 == IF c2.exc = "none" THEN Walk(c2, SortFiles(c2.val)) ELSE c2
        c4 == IF c3.exc = "none" THEN [c3 EXCEPT !.dir = olddir] ELSE c3
    IN Catch(c4, {"IOError"})
rec_tree(c, directory) ==
    LET olddir == c.dir
        c1 == FeCd(c, directory)
        c2 == IF c1.exc = "none" THEN FeLs(c.fe, c1) ELSE c1
        c3 == IF c2.exc = "none" THEN Walk(c2, SortFiles(c2.val)) ELSE c2
        c4 == IF c3.exc = "none" THEN FeCd(c3, AbsArg(olddir)) ELSE c3
    IN Catch(c4, {"IOError"})

\* do_tree that leaves out the closing self.fe.cd(olddir)
do_tree_stays(c, directory) ==
    IF ~is_open(c) THEN error(c)
    ELSE LET c1 == IF Given(directory) THEN FeCd(c, directory) ELSE c
         IN IF c1.exc = "none"
            THEN rec_tree(c1, IF Given(directory) THEN directory ELSE AbsArg(c1.dir))
            ELSE c1

\* do_tree(directory)
do_tree(c, directory) ==
    IF ~is_open(c) THEN error(c)
    ELSE LET olddir == c.dir
             c1 == IF Given(directory) THEN FeCd(c, directory) ELSE c
             c2 == IF c1.exc = "none"
                   THEN rec_tree(c1, IF Given(directory) THEN directory ELSE AbsArg(c1.dir))
                   ELSE c1
         IN IF c2.exc = "none" THEN FeCd(c2, AbsArg(olddir)) ELSE c2

\* do_pwd(args)
do_pwd(c) == IF ~is_open(c) THEN error(c) ELSE c

\* do_cd with the prompt taken from the requested path before the File
\* Explorer has answered
do_cd_prompt_first(c, args) ==
    IF Len(args) = 0 THEN error(c)
    ELSE IF ~is_open(c) THEN error(c)
    ELSE LET s_args == parse_file_names(args)
         IN IF ~s_args.ok THEN error(c)
            ELSE IF Len(s_args.names) = 0 THEN c
            ELSE IF Len(s_args.names) > 1 THEN error(c)
            ELSE LET c1 == FeCd([c EXCEPT !.prompt = Fqn(c.dir, s_args.names[1])],
                                s_args.names[1])
                 IN Catch(c1, {"IOError", "RemoteIOError"})

\* do_cd(args)
do_cd(c, args) ==
    IF Len(args) = 0 THEN error(c)
    ELSE IF ~is_open(c) THEN error(c)
    ELSE LET s_args == parse_file_names(args)
         IN IF ~s_args.ok THEN error(c)
            ELSE IF Len(s_args.names) = 0 THEN c
            ELSE IF Len(s_args.names) > 1 THEN error(c)
            ELSE LET c1 == FeCd(c, s_args.names[1])
                 IN IF c1.exc = "none" THEN set_prompt_path(c1)
                    ELSE Catch(c1, {"IOError", "RemoteIOError"})

\* do_md reaching the plain File Explorer's md, past the caching decorator
do_md_undecorated(c, args) ==
    IF Len(args) = 0 THEN error(c)
    ELSE IF ~is_open(c) THEN error(c)
    ELSE LET s_args == parse_file_names(args)
         IN IF ~s_args.ok THEN error(c)
            ELSE IF Len(s_args.names) = 0 THEN c
            ELSE IF Len(s_args.names) > 1 THEN error(c)
            ELSE Catch(FeMd("Plain", c, s_args.names[1]), {"IOError"})

\* do_md(args)
do_md(c, args) ==
    IF Len(args) = 0 THEN error(c)
    ELSE IF ~is_open(c) THEN error(c)
    ELSE LET s_args == parse_file_names(args)
         IN IF ~s_args.ok THEN error(c)
            ELSE IF Len(s_args.names) = 0 THEN c
            ELSE IF Len(s_args.names) > 1 THEN error(c)
            ELSE Catch(FeMd(c.fe, c, s_args.names[1]), {"IOError"})

\* the handlers that take one or two file names share their argument checks:
\* do_put, do_putr, do_get, do_getr (two names at most), do_rm, do_rmr, do_cat (one)
Second(names) == IF Len(names) > 1 THEN names[2] ELSE names[1]

\* do_put(args)
do_put(c, args, localOk) ==
    IF Len(args) = 0 THEN error(c)
    ELSE IF ~is_open(c) THEN error(c)
    ELSE LET s_args == parse_file_names(args)
         IN IF ~s_args.ok THEN error(c)
            ELSE IF Len(s_args.names) = 0 THEN c
            ELSE IF Len(s_args.names) > 2 THEN error(c)
            ELSE Catch(FePut(c.fe, c, s_args.names[1], Second(s_args.names), localOk),
                       {"IOError"})

\* do_putr(args)
do_putr(c, args, localOk) ==
    IF Len(args) = 0 THEN error(c)
    ELSE IF ~is_open(c) THEN error(c)
    ELSE LET s_args == parse_file_names(args)
         IN IF ~s_args.ok THEN error(c)
            ELSE IF Len(s_args.names) = 0 THEN c
            ELSE IF Len(s_args.names) > 2 THEN error(c)
            ELSE Catch(FePutr(c.fe, c, s_args.names[1], Second(s_args.names), localOk),
                       {"IOError"})

\* do_mput(args): args is the selection pattern, matched the local names it selects
do_mput(c, empty, matched) ==
    IF empty THEN error(c)
    ELSE IF ~is_open(c) THEN error(c)
    ELSE Catch(FeMput(c.fe, c, matched), {"IOError"})

\* do_get(args)
do_get(c, args) ==
    IF Len(args) = 0 THEN error(c)
    ELSE IF ~is_open(c) THEN error(c)
    ELSE LET s_args == parse_file_names(args)
         IN IF ~s_args.ok THEN error(c)
            ELSE IF Len(s_args.names) = 0 THEN c
            ELSE IF Len(s_args.names) > 2 THEN error(c)
            ELSE Catch(FeGet(c, "get", s_args.names[1]), {"IOError"})

\* do_getr(args)
do_getr(c, args) ==
    IF Len(args) = 0 THEN error(c)
    ELSE IF ~is_open(c) THEN error(c)
    ELSE LET s_args == parse_file_names(args)
         IN IF ~s_args.ok THEN error(c)
            ELSE IF Len(s_args.names) = 0 THEN c
            ELSE IF Len(s_args.names) > 2 THEN error(c)
            ELSE Catch(FeGetr(c, s_args.names[1]), {"IOError"})

\* do_mget(args)
do_mget(c, empty) ==
    IF empty THEN error(c)
    ELSE IF ~is_open(c) THEN error(c)
    ELSE Catch(FeMget(c), {"IOError"})

\* do_rm(args)
do_rm(c, args) ==
    IF Len(args) = 0 THEN error(c)
    ELSE IF ~is_open(c) THEN error(c)
    ELSE LET s_args == parse_file_names(args)
         IN IF ~s_args.ok THEN error(c)
            ELSE IF Len(s_args.names) = 0 THEN c
            ELSE IF Len(s_args.names) > 1 THEN error(c)
            ELSE Catch(FeRm(c.fe, c, s_args.names[1]), {"IOError", "PyboardError"})

\* do_rmr(args)
do_rmr(c, args) ==
    IF Len(args) = 0 THEN error(c)
    ELSE IF ~is_open(c) THEN error(c)
    ELSE LET s_args == parse_file_names(args)
         IN IF ~s_args.ok THEN error(c)
            ELSE IF Len(s_args.names) = 0 THEN c
            ELSE IF Len(s_args.names) > 1 THEN error(c)
            ELSE Catch(FeRmr(c.fe, c, s_args.names[1]), {"IOError", "PyboardError"})

\* do_mrm(args)
do_mrm(c, empty, matched) ==
    IF empty THEN error(c)
    ELSE IF ~is_open(c) THEN error(c)
    ELSE Catch(FeMrm(c.fe, c, matched), {"IOError"})

\* do_cat(args)
do_cat(c, args) ==
    IF Len(args) = 0 THEN error(c)
    ELSE IF ~is_open(c) THEN error(c)
    ELSE LET s_args == parse_file_names(args)
         IN IF ~s_args.ok THEN error(c)
            ELSE IF Len(s_args.names) = 0 THEN c
            ELSE IF Len(s_args.names) > 1 THEN error(c)
            ELSE Catch(FeGet(c, "gets", s_args.names[1]), {"IOError"})

\* do_exec(args): stderr tells whether the statement left error text
do_exec(c, empty, stderr) ==
    IF empty THEN error(c)
    ELSE IF ~is_open(c) THEN error(c)
    ELSE Catch(FeExec(c, stderr), {"IOError", "PyboardError"})

\* do_repl(args): oldSerial tells whether PySerial is older than 2.7
do_repl(c, oldSerial) ==
    IF oldSerial THEN error(c)
    ELSE IF ~is_open(c) THEN error(c)
    ELSE [c EXCEPT !.ops = @ \o <<[op |-> "teardown", ok |-> TRUE], [op |-> "setup", ok |-> TRUE]>>]

\* do_mpyc(args): self.fe is used without __is_open(); on None that is an
\* AttributeError; compiled tells whether mpy-cross succeeded
do_mpyc(c, args, compiled) ==
    IF Len(args) = 0 THEN error(c)
    ELSE LET s_args == parse_file_names(args)
         IN IF ~s_args.ok THEN error(c)
            ELSE IF Len(s_args.names) = 0 THEN c
            ELSE IF Len(s_args.names) > 1 THEN error(c)
            ELSE IF c.fe = "None" THEN [c EXCEPT !.exc = "AttributeError"]
            ELSE IF compiled THEN [c EXCEPT !.ops = Log(c, "mpy_cross", TRUE)]
            ELSE Catch(Raise(c, "mpy_cross", "IOError"), {"IOError"})

\* do_lls, do_lcd, do_lpwd: the local directory; failed tells whether lcd's
\* os.chdir raised OSError
do_local(c, failed) == IF failed THEN error(c) ELSE c

(***************************************************************************)
(* main() and cmd.Cmd: the -c command list, then the interactive loop.     *)
(* onecmd's return value is dropped in the -c loop; cmdloop stops on it.   *)
(* An exception no handler catches ends the program ("crashed").           *)
(***************************************************************************)
Running == pc \in {"cmdlist", "cmdloop"}

MainLoop(stop, exc) ==
    /\ Running
    /\ IF exc # "none" THEN pc' = "crashed" /\ todo' = todo
       ELSE IF pc = "cmdloop" THEN pc' = (IF stop THEN "done" ELSE "cmdloop") /\ todo' = todo
       ELSE /\ todo' = todo - 1
            /\ pc' = (IF todo > 1 THEN "cmdlist"
                      ELSE IF noninteractive THEN "done" ELSE "cmdloop")
    /\ exit' = (IF exit = "exited" THEN "resumed" ELSE IF stop THEN "exited" ELSE "no")
    /\ UNCHANGED <<noninteractive, caching>>

\* onecmd(line): the handler has run from Ctx(..) to c
Step(cmd, c, stop) ==
    /\ fe' = c.fe
    /\ dir' = c.dir
    /\ cache' = c.cache
    /\ fs' = c.fs
    /\ prompt' = c.prompt
    /\ sessions' = c.sessions
    /\ suspect' = (c.suspect \/ c.sus)
    /\ last' = [reused |-> suspect /\ \E i \in 1..Len(c.ops) : c.ops[i].op \notin {"close", "new"},
                mut |-> c.mut,
                open |-> IF \E i \in 1..Len(c.ops) : c.ops[i] = [op |-> "new", ok |-> TRUE]
                         THEN [target |-> c.target, port |-> c.port, plat |-> c.plat]
                         ELSE NoOpen]
    /\ crash' = (IF c.exc = "none" THEN NoCrash ELSE [cmd |-> cmd, exc |-> c.exc, ops |-> c.ops])
    /\ MainLoop(stop, c.exc)

\* the device faults a command that reaches the File Explorer may meet
Faults(reaches, calls) == IF reaches THEN {k \in 0..MaxFault : k <= calls} ELSE {0}
\* an outcome that only matters when the command reaches the File Explorer
Choice(reaches) == IF reaches THEN BOOLEAN ELSE {FALSE}
Connected == fe # "None"
\* the model's filesystem can hold what the command would create
Fits(p) == LET t == Fqn(dir, p) IN t \in Dirs \/ ~IsDir(fs, Parent(t))

\* an entry of the -c list that is empty or starts with '#'
skip_entry ==
    /\ pc = "cmdlist"
    /\ todo' = todo - 1
    /\ pc' = (IF todo > 1 THEN "cmdlist" ELSE IF noninteractive THEN "done" ELSE "cmdloop")
    /\ UNCHANGED <<noninteractive, caching, fe, dir, cache, suspect, prompt, fs,
                   sessions, exit, last, crash>>

cmd_exit ==
    \E flt \in Faults(Connected, 1) : Step("exit", do_exit(Ctx(flt, FALSE)), TRUE)

cmd_open ==
    \E args \in Targets, plat \in Platforms,
       ctor \in {"ok", "PyboardError", "ConError", "AttributeError"},
       flt \in Faults(Connected, 1) :
        LET c == do_open(Ctx(flt, FALSE), args, plat, ctor)
        IN c.sessions <= MaxSessions /\ Step("open", c, FALSE)

cmd_close ==
    \E flt \in Faults(Connected, 1) : Step("close", do_close(Ctx(flt, FALSE)), FALSE)

cmd_ls ==
    \E directory \in PathArgs \cup {EmptyArg}, flt \in Faults(Connected, MaxFault) :
        Step("ls", do_ls(Ctx(flt, FALSE), directory), FALSE)

cmd_tree ==
    \E directory \in PathArgs \cup {EmptyArg}, flt \in Faults(Connected, MaxFault) :
        Step("tree", do_tree(Ctx(flt, FALSE), directory), FALSE)

cmd_pwd == Step("pwd", do_pwd(Ctx(0, FALSE)), FALSE)

cmd_cd ==
    \E args \in ArgStrings :
        Step("cd", do_cd(Ctx(0, FALSE), args), FALSE)

cmd_md ==
    \E args \in ArgStrings :
        /\ Usable(args, 1) => Fits(Tokens(args)[1])
        /\ Step("md", do_md(Ctx(0, FALSE), args), FALSE)

cmd_put ==
    \E args \in ArgStrings : \E missing \in Choice(Connected /\ Usable(args, 2)) :
        /\ Usable(args, 2) => Fits(Second(Tokens(args)))
        /\ Step("put", do_put(Ctx(0, FALSE), args, ~missing), FALSE)

cmd_putr ==
    \E args \in ArgStrings : \E missing \in Choice(Connected /\ Usable(args, 2)) :
        /\ Usable(args, 2) => Fits(Second(Tokens(args)))
        /\ Step("putr", do_putr(Ctx(0, FALSE), args, ~missing), FALSE)

cmd_mput ==
    \E empty \in BOOLEAN, matched \in SUBSET Names :
        /\ empty => matched = {}
        /\ \A n \in matched : Fits(RelArg(n))
        /\ Step("mput", do_mput(Ctx(0, FALSE), empty, matched), FALSE)

cmd_get ==
    \E args \in ArgStrings :
        Step("get", do_get(Ctx(0, FALSE), args), FALSE)

cmd_getr ==
    \E args \in ArgStrings :
        Step("getr", do_getr(Ctx(0, FALSE), args), FALSE)

cmd_mget ==
    \E empty \in BOOLEAN : Step("mget", do_mget(Ctx(0, FALSE), empty), FALSE)

cmd_rm ==
    \E args \in ArgStrings : \E tmo \in Choice(Connected /\ Usable(args, 1)) :
        Step("rm", do_rm(Ctx(0, tmo), args), FALSE)

cmd_rmr ==
    \E args \in ArgStrings : \E tmo \in Choice(Connected /\ Usable(args, 1)) :
        Step("rmr", do_rmr(Ctx(0, tmo), args), FALSE)

cmd_mrm ==
    \E empty \in BOOLEAN, matched \in SUBSET Names :
        /\ empty => matched = {}
        /\ Step("mrm", do_mrm(Ctx(0, FALSE), empty, matched), FALSE)

cmd_cat ==
    \E args \in ArgStrings :
        Step("cat", do_cat(Ctx(0, FALSE), args), FALSE)

cmd_exec ==
    \E empty \in BOOLEAN, stderr \in BOOLEAN, tmo \in Choice(Connected) :
        /\ empty => (~stderr /\ ~tmo)
        /\ Step("exec", do_exec(Ctx(0, tmo), empty, stderr), FALSE)

cmd_repl ==
    \E oldSerial \in BOOLEAN : Step("repl", do_repl(Ctx(0, FALSE), oldSerial), FALSE)

cmd_mpyc ==
    \E args \in ArgStrings : \E failed \in Choice(Usable(args, 1)) :
        Step("mpyc", do_mpyc(Ctx(0, FALSE), args, ~failed), FALSE)

cmd_local ==
    \E failed \in BOOLEAN : Step("local", do_local(Ctx(0, FALSE), failed), FALSE)

Next ==
    \/ skip_entry
    \/ cmd_exit
    \/ cmd_open
    \/ cmd_close
    \/ cmd_ls
    \/ cmd_tree
    \/ cmd_pwd
    \/ cmd_cd
    \/ cmd_md
    \/ cmd_put
    \/ cmd_putr
    \/ cmd_mput
    \/ cmd_get
    \/ cmd_getr
    \/ cmd_mget
    \/ cmd_rm
    \/ cmd_rmr
    \/ cmd_mrm
    \/ cmd_cat
    \/ cmd_exec
    \/ cmd_repl
    \/ cmd_mpyc
    \/ cmd_local

Spec == Init /\ [][Next]_vars

(***************************************************************************)
(* Properties.  A property of what one handler does is stated over the     *)
(* handler's result from every reachable state in which the shell takes    *)
(* commands, and for every input.                                          *)
(***************************************************************************)
\* the File Explorer's cd was called and raised
CdFailed(c) == \E i \in 1..Len(c.ops) : c.ops[i] = [op |-> "cd", ok |-> FALSE]
CdSucceeded(c) == \E i \in 1..Len(c.ops) : c.ops[i] = [op |-> "cd", ok |-> TRUE]

\* C1: a cd whose File Explorer cd fails reports an error and leaves the
\* tracked directory and the prompt path as they were, and cd changes the
\* prompt path only after the File Explorer's cd has succeeded.
C1_FailedCdKeepsDirectory ==
    Running =>
        \A args \in ArgStrings :
            LET c == do_cd(Ctx(0, FALSE), args)
            IN /\ CdFailed(c) =>
                    (c.dir = dir /\ c.prompt = prompt /\ c.err /\ c.exc = "none")
               /\ c.prompt # prompt => (CdSucceeded(c) /\ c.prompt = c.dir)

\* a connected shell, away from the root, is given a cd that fails and one
\* that succeeds and moves the prompt
C1_Witness ==
    /\ Running
    /\ Connected
    /\ dir # Root
    /\ prompt = dir
    /\ \E args \in ArgStrings : CdFailed(do_cd(Ctx(0, FALSE), args))
    /\ \E args \in ArgStrings : do_cd(Ctx(0, FALSE), args).prompt # prompt

\* C2: the shell never holds more than one session that was created and not
\* closed, also when the close of the session it replaces fails.
C2_AtMostOneSession == sessions <= 1

\* C3: once an exec, rm or rmr has met a PyboardError, no command uses that
\* session's File Explorer before a reconnect has replaced the session.
C3_NoUseOfSuspectSession == ~last.reused

\* the argument strings the handlers taking at most `most` names must refuse
Invalid(args, most) ==
    \/ args = <<>>
    \/ Tokenize(args).rest # <<>>
    \/ Len(Tokenize(args).tokens) > most
\* nothing reached the File Explorer and nothing the shell tracks has changed
Untouched(c) ==
    /\ c.ops = <<>>
    /\ c.exc = "none"
    /\ c.fe = fe /\ c.dir = dir /\ c.prompt = prompt
    /\ c.cache = cache /\ c.fs = fs /\ c.sessions = sessions

\* C4: cd, md, put, putr, get, getr, rm, rmr and cat given an argument string
\* that is empty, leaves a remainder the tokenizer cannot take, or holds more
\* names than the command allows (two for put, putr, get, getr; one for the
\* others) issue no File Explorer operation and change no state.
C4_InvalidArgumentsTouchNothing ==
    Running => \A args \in ArgStrings :
        /\ Invalid(args, 1) =>
              /\ Untouched(do_cd(Ctx(0, FALSE), args))
              /\ Untouched(do_md(Ctx(0, FALSE), args))
              /\ \A tmo \in BOOLEAN :
                    /\ Untouched(do_rm(Ctx(0, tmo), args))
                    /\ Untouched(do_rmr(Ctx(0, tmo), args))
              /\ Untouched(do_cat(Ctx(0, FALSE), args))
        /\ Invalid(args, 2) =>
              /\ \A localOk \in BOOLEAN :
                    /\ Untouched(do_put(Ctx(0, FALSE), args, localOk))
                    /\ Untouched(do_putr(Ctx(0, FALSE), args, localOk))
              /\ Untouched(do_get(Ctx(0, FALSE), args))
              /\ Untouched(do_getr(Ctx(0, FALSE), args))

\* a connected shell is given an empty string, a string with a remainder and
\* strings with too many names; each is refused with an error, while a string
\* with two names reaches the File Explorer through put
C4_Witness ==
    /\ Running
    /\ Connected
    /\ do_cd(Ctx(0, FALSE), <<>>).err
    /\ \E args \in ArgStrings :
          /\ Tokenize(args).rest # <<>> /\ Len(Tokenize(args).tokens) = 1
          /\ do_md(Ctx(0, FALSE), args).err
    /\ \E args \in ArgStrings :
          /\ Tokenize(args).rest = <<>> /\ Len(Tokenize(args).tokens) = 2
          /\ do_rm(Ctx(0, FALSE), args).err
          /\ do_put(Ctx(0, FALSE), args, TRUE).ops # <<>>
    /\ \E args \in ArgStrings :
          /\ Tokenize(args).rest = <<>> /\ Len(Tokenize(args).tokens) = 3
          /\ do_put(Ctx(0, FALSE), args, TRUE).err

\* C5: close always ends with the shell disconnected and the prompt at the
\* root, whatever the device answers; given to a disconnected shell it
\* reaches no File Explorer, reports no error and changes nothing.
C5_CloseEndsDisconnected ==
    Running => \A flt \in Faults(Connected, 1) :
        LET c == do_close(Ctx(flt, FALSE))
        IN /\ c.fe = "None"
           /\ c.prompt = Root
           /\ c.exc = "none"
           /\ fe = "None" => (Untouched(c) /\ ~c.err)

\* every listing the caching File Explorer holds for a directory of the
\* device is that directory's present listing
CacheCoherent ==
    \A d \in Dirs : (cache[d] # NoEntry /\ IsDir(fs, d)) => cache[d] = Listing(fs, d)

HasScheme(t) == t # <<>> /\ t[1] \in Schemes

\* C7: what open hands to the File Explorer starts with a scheme; a target
\* that already starts with ser:, tn: or ws: is handed on unchanged, any
\* other target gets the serial scheme put in front, and normalising what
\* was handed on again changes nothing.
C7_OpenNormalizesTarget ==
    last.open # NoOpen =>
        /\ HasScheme(last.open.port)
        /\ HasScheme(last.open.target) => last.open.port = last.open.target
        /\ ~HasScheme(last.open.target) =>
              last.open.port \in {<<"ser:">> \o last.open.target,
                                  <<"ser:", "/dev/">> \o last.open.target}
        /\ Normalize(last.open.plat, last.open.port) = last.open.port

\* C8: once exit or EOF has run, the shell runs no further command, also
\* when commands of the -c list are still waiting.
C8_NothingRunsAfterExit == exit # "resumed"

\* the walk of a tree command given no directory, as do_tree starts it
TreeWalk(flt) == rec_tree(Ctx(flt, FALSE), AbsArg(dir))

\* C9, as stated: the tree walk issues no cd and so never changes the
\* tracked directory.
C9_TreeWalkIssuesNoCd ==
    (Running /\ Connected) =>
        \A flt \in Faults(TRUE, MaxFault) :
            LET c == TreeWalk(flt)
            IN /\ \A i \in 1..Len(c.ops) : c.ops[i].op # "cd"
               /\ c.dir = dir

\* C9: the tree walk enters every directory it lists with a cd: each ls of
\* the walk directly follows a successful cd, and a walk in which no call
\* failed has issued as many more cds to come back and ends in the directory
\* it started from.
C9_TreeWalkEntersByCd ==
    (Running /\ Connected) =>
        \A flt \in Faults(TRUE, MaxFault) :
            LET c == TreeWalk(flt)
                At(op) == {i \in 1..Len(c.ops) : c.ops[i].op = op}
            IN /\ \A i \in At("ls") : i > 1 /\ c.ops[i - 1] = [op |-> "cd", ok |-> TRUE]
               /\ c.exc = "none"
               /\ (\A i \in 1..Len(c.ops) : c.ops[i].ok) =>
                     /\ c.dir = dir
                     /\ Cardinality(At("cd")) = 2 * Cardinality(At("ls"))

\* a connected shell in a directory with a subdirectory: the walk lists both
C9_Witness ==
    /\ Running
    /\ Connected
    /\ Cardinality({i \in 1..Len(TreeWalk(0).ops) : TreeWalk(0).ops[i].op = "ls"}) >= 2
    /\ \A i \in 1..Len(TreeWalk(0).ops) : TreeWalk(0).ops[i].ok

\* C10: no RemoteIOError leaves a command handler: the program never ends
\* with a RemoteIOError that no handler caught.
C10_NoRemoteIOErrorEscapes == crash.exc # "RemoteIOError"

\* a call of the command's File Explorer log failed
SomeCallFailed(c) == \E i \in 1..Len(c.ops) : ~c.ops[i].ok

\* C11: when an ls or a tree command of a connected shell has returned, the
\* tracked directory is the one the command started in, whatever directory
\* it was given and also when a cd or ls of the command failed on the way.
C11_ListingRestoresDirectory ==
    (Running /\ Connected) =>
        \A directory \in PathArgs \cup {EmptyArg}, flt \in Faults(TRUE, MaxFault) :
            /\ LET c == do_ls(Ctx(flt, FALSE), directory)
               IN c.exc = "none" => c.dir = dir
            /\ LET c == do_tree(Ctx(flt, FALSE), directory)
               IN c.exc = "none" => c.dir = dir

\* a connected shell is given an ls and a tree of another directory; each
\* returns after one of its File Explorer calls failed, and a tree of a
\* directory with a subdirectory returns after a failure inside the walk
C11_Witness ==
    /\ Running
    /\ Connected
    /\ \E directory \in PathArgs, flt \in 1..MaxFault :
          LET c == do_ls(Ctx(flt, FALSE), directory)
          IN c.exc = "none" /\ SomeCallFailed(c) /\ Len(c.ops) = 3
             /\ Fqn(dir, directory) # dir
    /\ \E directory \in PathArgs, flt \in 1..MaxFault :
          LET c == do_tree(Ctx(flt, FALSE), directory)
          IN c.exc = "none" /\ SomeCallFailed(c) /\ Len(c.ops) >= 4
             /\ Fqn(dir, directory) # dir

\* the command only reported an error
Refused(c) == Untouched(c) /\ c.err

\* C12: while the shell is disconnected, every command that uses the File
\* Explorer (ls, tree, pwd, cd, md, put, putr, mput, get, getr, mget, rm,
\* rmr, mrm, cat, exec, repl, mpyc) reaches no File Explorer operation,
\* reports an error and leaves the state unchanged.
C12_DisconnectedCommandsOnlyReport ==
    (Running /\ ~Connected) =>
        /\ \A directory \in PathArgs \cup {EmptyArg} :
              /\ Refused(do_ls(Ctx(0, FALSE), directory))
              /\ Refused(do_tree(Ctx(0, FALSE), directory))
        /\ Refused(do_pwd(Ctx(0, FALSE)))
        /\ \A args \in ArgStrings :
              /\ Refused(do_cd(Ctx(0, FALSE), args))
              /\ Refused(do_md(Ctx(0, FALSE), args))
              /\ Refused(do_put(Ctx(0, FALSE), args, TRUE))
              /\ Refused(do_putr(Ctx(0, FALSE), args, TRUE))
              /\ Refused(do_get(Ctx(0, FALSE), args))
              /\ Refused(do_getr(Ctx(0, FALSE), args))
              /\ Refused(do_rm(Ctx(0, FALSE), args))
              /\ Refused(do_rmr(Ctx(0, FALSE), args))
              /\ Refused(do_cat(Ctx(0, FALSE), args))
              /\ Refused(do_mpyc(Ctx(0, FALSE), args, TRUE))
        /\ \A empty \in BOOLEAN :
              /\ Refused(do_mput(Ctx(0, FALSE), empty, {}))
              /\ Refused(do_mget(Ctx(0, FALSE), empty))
              /\ Refused(do_mrm(Ctx(0, FALSE), empty, {}))
              /\ Refused(do_exec(Ctx(0, FALSE), empty, FALSE))
        /\ \A oldSerial \in BOOLEAN : Refused(do_repl(Ctx(0, FALSE), oldSerial))

\* C13: whenever the interactive shell waits for the next command, the
\* prompt shows the File Explorer's tracked directory when the shell is
\* connected and the root when it is not.
C13_PromptShowsTrackedDirectory ==
    pc = "cmdloop" => prompt = (IF Connected THEN dir ELSE Root)

====
